---- MODULE Spec2Model ----
(***************************************************************************)
(* Model of src/main.mjs: the flashcard pipeline of cards-creator.         *)
(*                                                                         *)
(* Every text (a word, a meaning, a phrase, a line of output) is a         *)
(* sequence of one-character strings; the fixed pieces of a template       *)
(* literal are kept as one element each.  The event loop is modelled by    *)
(* one action per callback: the module's top level, and the settlement of  *)
(* each awaited promise, each running main() up to its next await.         *)
(***************************************************************************)
EXTENDS Integers, Sequences, FiniteSets

VARIABLES
    env,              \* process.env.DEEPSEEK_API_KEY is set
    argW,             \* args.w as minimist leaves it
    argN,             \* args.n as minimist leaves it
    argF,             \* args.flashcards as minimist leaves it
    pc,               \* where main() is suspended
    exitCode,         \* the status the process ended with (read when pc = "exit")
    failure,          \* what ended the run with status 1, "none" otherwise
    idx,              \* position of the for..of loop in words
    meaning,          \* main's local `meaning` of the current word
    phrases,          \* main's local `phrases` of the current word
    selectedPhrases,  \* main's accumulation list
    values,           \* Promise.all's result slots: <<>> is a hole, <<pair>> a value
    translations,     \* main's local `translations`, set when Promise.all resolves
    reordered,        \* some translatePhrase call settled before an earlier-issued one
    calls,            \* every collaborator call, in the order issued
    settled,          \* for every call, <<>> while pending, <<outcome>> once settled
    stdout,           \* what console.log printed, one element per call
    stderr,           \* what console.error printed
    fileWritten,      \* flashcards.txt exists
    fileContent       \* its content

vars == <<env, argW, argN, argF, pc, exitCode, failure, idx, meaning, phrases,
          selectedPhrases, values, translations, reordered, calls, settled,
          stdout, stderr, fileWritten, fileContent>>

-----------------------------------------------------------------------------
(* Bounds and input alphabets *)

MaxPhrases == 2

Absent == [present |-> FALSE, text |-> <<>>]
Given(t) == [present |-> TRUE, text |-> t]

WordArgs ==
    { Absent, Given(<<>>), Given(<<"r">>), Given(<<"r", ",", "j">>),
      Given(<<"r", ",", "r">>) }

NumArgs ==
    { Absent, Given(<<"0">>), Given(<<"-", "1">>), Given(<<"x">>),
      Given(<<"2">>), Given(<<"2", "x">>), Given(<<" ", "1">>) }

\* The -w and -n values of a run: a phrase count that passes line 49 and is
\* not the default is tried with the one-word list, the count reaching
\* nothing but the text of the generation request
CommandLines ==
    { c \in WordArgs \X NumArgs :
        \/ c[2] \in {Absent, Given(<<"0">>), Given(<<"-", "1">>), Given(<<"x">>)}
        \/ c[1] \in {Absent, Given(<<>>), Given(<<"r">>)} }

Meanings == { <<"m">>, <<"n">> }
PhrasePool == <<  <<"p">>, <<"q">>, <<"p", "q">>, <<"q", "p">> >>
Portuguese == { <<"x">>, <<"y">> }

-----------------------------------------------------------------------------
(* Pure helpers *)

Digits == {"0", "1", "2", "3", "4", "5", "6", "7", "8", "9"}

DigitVal(c) ==
    CASE c = "0" -> 0 [] c = "1" -> 1 [] c = "2" -> 2 [] c = "3" -> 3
      [] c = "4" -> 4 [] c = "5" -> 5 [] c = "6" -> 6 [] c = "7" -> 7
      [] c = "8" -> 8 [] c = "9" -> 9

NaN == [nan |-> TRUE, val |-> 0]
Num(v) == [nan |-> FALSE, val |-> v]

RECURSIVE SkipSpace(_)
SkipSpace(s) ==
    IF s # <<>> /\ Head(s) = " " THEN SkipSpace(Tail(s)) ELSE s

RECURSIVE DigitRun(_)
DigitRun(s) ==
    IF s # <<>> /\ Head(s) \in Digits THEN <<Head(s)>> \o DigitRun(Tail(s)) ELSE <<>>

RECURSIVE Radix10(_, _)
Radix10(ds, acc) ==
    IF ds = <<>> THEN acc ELSE Radix10(Tail(ds), acc * 10 + DigitVal(Head(ds)))

ParseInt(s) ==
    LET t == SkipSpace(s)
        neg == t # <<>> /\ Head(t) = "-"
        u == IF t # <<>> /\ Head(t) \in {"-", "+"} THEN Tail(t) ELSE t
        ds == DigitRun(u)
    IN IF ds = <<>> THEN NaN
       ELSE Num(IF neg THEN 0 - Radix10(ds, 0) ELSE Radix10(ds, 0))

RECURSIVE SplitAcc(_, _, _)
SplitAcc(s, sep, cur) ==
    IF s = <<>> THEN <<cur>>
    ELSE IF Head(s) = sep THEN <<cur>> \o SplitAcc(Tail(s), sep, <<>>)
    ELSE SplitAcc(Tail(s), sep, Append(cur, Head(s)))

Split(s, sep) == SplitAcc(s, sep, <<>>)

RECURSIVE Join(_, _)
Join(items, sep) ==
    IF items = <<>> THEN <<>>
    ELSE IF Len(items) = 1 THEN items[1]
    ELSE items[1] \o sep \o Join(Tail(items), sep)

Truthy(arg) == arg.present /\ arg.text # <<>>

-----------------------------------------------------------------------------
(* Module-level configuration, lines 17-52 *)

model == "deepseek"

RECURSIVE Distinct(_, _)
Distinct(s, seen) ==
    IF s = <<>> THEN <<>>
    ELSE IF Head(s) \in seen THEN Distinct(Tail(s), seen)
    ELSE <<Head(s)>> \o Distinct(Tail(s), seen \cup {Head(s)})

\* Variant: a word given twice is kept once
wordsDeduplicated == IF Truthy(argW) THEN Distinct(Split(argW.text, ","), {}) ELSE <<>>

words == IF Truthy(argW) THEN Split(argW.text, ",") ELSE <<>>

DefaultNumPhrases == 5

numPhrases == IF Truthy(argN) THEN ParseInt(argN.text) ELSE Num(DefaultNumPhrases)

\* Variant: the export does not look at the flag
flashcardsAlwaysOn == TRUE

flashcards == argF

\* Variant: the check looks at the provider that is not configured
CredentialMissingOtherProvider == model = "openai" /\ ~env

CredentialMissing == model = "deepseek" /\ ~env

NoWords == Len(words) = 0

\* Variant: the loop walks the list from its end
WordAtReversed(i) == words[Len(words) + 1 - i]

\* The element the for..of loop of line 93 binds to `word` at position i
WordAt(i) == words[i]

BadNumPhrases == numPhrases.nan \/ numPhrases.val <= 0

-----------------------------------------------------------------------------
(* Collaborator calls *)

Call(fn, word, num, choices, phrase) ==
    [fn |-> fn, word |-> word, num |-> num, choices |-> choices, phrase |-> phrase]

GetWordMeaningCall(word) == Call("getWordMeaning", word, 0, <<>>, <<>>)
GeneratePhrasesCall(word, n) == Call("generatePhrases", word, n, <<>>, <<>>)
PromptCall(word, choices) == Call("prompt", word, 0, choices, <<>>)
TranslatePhraseCall(phrase) == Call("translatePhrase", <<>>, 0, <<>>, phrase)

\* The candidate lists a generatePhrases call may return.
PhraseLists == { SubSeq(PhrasePool, 1, n) : n \in 0..MaxPhrases }

\* The checkbox prompt returns the checked choices in the order presented.
RECURSIVE Checked(_, _, _)
Checked(choices, picks, k) ==
    IF k > Len(choices) THEN <<>>
    ELSE (IF k \in picks THEN <<choices[k]>> ELSE <<>>) \o Checked(choices, picks, k + 1)

Outcome(ok, text, list) == [ok |-> ok, text |-> text, list |-> list]

Pending == { k \in 1..Len(calls) : settled[k] = <<>> }

-----------------------------------------------------------------------------
(* Output formatting *)

MeaningLine(word, m) == <<"\nMeaning of \"">> \o word \o <<"\": ">> \o m \o <<"\n">>

SummaryEntry(pair) ==
    <<"Meaning: ">> \o pair.meaning \o <<"\nEnglish: ">> \o pair.english
        \o <<"\nPortuguese: ">> \o pair.portuguese

OutputContent(pairs) ==
    Join([k \in 1..Len(pairs) |-> SummaryEntry(pairs[k])], <<"\n\n">>)

FlashcardLine(pair) ==
    <<"\"">> \o pair.english \o <<" <b><span style=\"color: rgb(0, 0, 255);\">">>
        \o pair.word \o <<"</span></b>\"">> \o <<"\t">> \o pair.meaning

HeaderLines == << <<"#separator:tab">>, <<"#html:true">>, <<"#tags column:3">> >>

\* Variant: with no pair to export the content is empty
FlashcardsContentEmptyWithoutPairs(pairs) ==
    IF pairs = <<>> THEN <<>>
    ELSE Join(HeaderLines \o [k \in 1..Len(pairs) |-> FlashcardLine(pairs[k])], <<"\n">>)

\* Variant: every line, the last included, is ended by a newline
FlashcardsContentNewlineEnded(pairs) ==
    Join(HeaderLines \o [k \in 1..Len(pairs) |-> FlashcardLine(pairs[k])], <<"\n">>)
        \o <<"\n">>

FlashcardsContent(pairs) ==
    Join(HeaderLines \o [k \in 1..Len(pairs) |-> FlashcardLine(pairs[k])], <<"\n">>)

-----------------------------------------------------------------------------
(* The state machine *)

Init ==
    /\ env \in BOOLEAN
    /\ \E c \in CommandLines : argW = c[1] /\ argN = c[2]
    /\ argF \in BOOLEAN
    /\ pc = "start"
    /\ exitCode = 0
    /\ failure = "none"
    /\ idx = 0
    /\ meaning = <<>>
    /\ phrases = <<>>
    /\ selectedPhrases = <<>>
    /\ values = <<>>
    /\ translations = <<>>
    /\ reordered = FALSE
    /\ calls = <<>>
    /\ settled = <<>>
    /\ stdout = <<>>
    /\ stderr = <<>>
    /\ fileWritten = FALSE
    /\ fileContent = <<>>

\* process.exit(1) after console.error(msg)
ExitWithError(msg, why) ==
    /\ stderr' = Append(stderr, msg)
    /\ pc' = "exit"
    /\ exitCode' = 1
    /\ failure' = why

\* Variant: the handler reports the error and does not end the process
TopLevelCatchStaysAlive(why) ==
    /\ stderr' = Append(stderr, <<"An error occurred:">>)
    /\ pc' = "failed"
    /\ failure' = why
    /\ UNCHANGED exitCode

\* Variant: the handler reports the error and leaves the status alone
TopLevelCatchNoExit(why) ==
    /\ stderr' = Append(stderr, <<"An error occurred:">>)
    /\ pc' = "exit"
    /\ exitCode' = 0
    /\ failure' = why

\* main().catch: any rejection inside main ends the process with status 1
TopLevelCatch(why) == ExitWithError(<<"An error occurred:">>, why)

\* settle the call at position k with outcome o, then issue the calls in `more`
SettleAndIssue(k, o, more) ==
    /\ calls' = calls \o more
    /\ settled' = [settled EXCEPT ![k] = <<o>>] \o [j \in 1..Len(more) |-> <<>>]

\* Variant: main starts the meaning lookups of all the words at once
StartupParallel ==
    /\ pc = "start"
    /\ ~CredentialMissing /\ ~NoWords /\ ~BadNumPhrases
    /\ idx' = 1
    /\ calls' = [k \in 1..Len(words) |-> GetWordMeaningCall(WordAt(k))]
    /\ settled' = [k \in 1..Len(words) |-> <<>>]
    /\ pc' = "awaitMeaning"
    /\ UNCHANGED <<env, argW, argN, argF, exitCode, failure, meaning, phrases,
                   selectedPhrases, values, translations, reordered, stdout, stderr,
                   fileWritten, fileContent>>

\* Lines 19-52, then main() up to its first await
Startup ==
    /\ pc = "start"
    /\ IF CredentialMissing
         THEN /\ ExitWithError(<<"Please set the DEEPSEEK_API_KEY environment variable.">>,
                               "credential")
              /\ UNCHANGED <<idx, calls, settled>>
       ELSE IF NoWords
         THEN /\ ExitWithError(<<"No words provided.">>, "words")
              /\ UNCHANGED <<idx, calls, settled>>
       ELSE IF BadNumPhrases
         THEN /\ ExitWithError(<<"Please provide a valid number of phrases.">>, "numPhrases")
              /\ UNCHANGED <<idx, calls, settled>>
       ELSE /\ idx' = 1
            /\ calls' = <<GetWordMeaningCall(WordAt(1))>>
            /\ settled' = << <<>> >>
            /\ pc' = "awaitMeaning"
            /\ UNCHANGED <<exitCode, failure, stderr>>
    /\ UNCHANGED <<env, argW, argN, argF, meaning, phrases, selectedPhrases, values,
                   translations, reordered, stdout, fileWritten, fileContent>>

\* Line 94 resolves; lines 95-97 run up to the await of generatePhrases
MeaningResolve(m) ==
    /\ pc = "awaitMeaning"
    /\ meaning' = m
    /\ stdout' = Append(stdout, MeaningLine(WordAt(idx), m))
    /\ SettleAndIssue(Len(calls), Outcome(TRUE, m, <<>>),
                      <<GeneratePhrasesCall(WordAt(idx), numPhrases.val)>>)
    /\ pc' = "awaitPhrases"
    /\ UNCHANGED <<env, argW, argN, argF, exitCode, failure, idx, phrases,
                   selectedPhrases, values, translations, reordered, stderr,
                   fileWritten, fileContent>>

\* Variant: a failed call is made again
SequentialRejectRetry(at, why) ==
    /\ pc = at
    /\ SettleAndIssue(Len(calls), Outcome(FALSE, <<>>, <<>>), <<calls[Len(calls)]>>)
    /\ UNCHANGED <<env, argW, argN, argF, pc, exitCode, failure, idx, meaning, phrases,
                   selectedPhrases, values, translations, reordered, stdout, stderr,
                   fileWritten, fileContent>>

\* Variant: a timer gives up on the awaited call, which is left unanswered
SequentialRejectTimeout(at, why) ==
    /\ pc = at
    /\ TopLevelCatch(why)
    /\ UNCHANGED <<env, argW, argN, argF, idx, meaning, phrases, selectedPhrases,
                   values, translations, reordered, calls, settled, stdout,
                   fileWritten, fileContent>>

\* A rejected await in the sequential phase (lines 94, 97, 99) unwinds to line 146
SequentialReject(at, why) ==
    /\ pc = at
    /\ SettleAndIssue(Len(calls), Outcome(FALSE, <<>>, <<>>), <<>>)
    /\ TopLevelCatch(why)
    /\ UNCHANGED <<env, argW, argN, argF, idx, meaning, phrases, selectedPhrases,
                   values, translations, reordered, stdout, fileWritten, fileContent>>

MeaningReject == SequentialReject("awaitMeaning", "getWordMeaning")

\* Line 97 resolves; lines 99-106 present the prompt
PhrasesResolve(ps) ==
    /\ pc = "awaitPhrases"
    /\ phrases' = ps
    /\ SettleAndIssue(Len(calls), Outcome(TRUE, <<>>, ps), <<PromptCall(WordAt(idx), ps)>>)
    /\ pc' = "awaitSelect"
    /\ UNCHANGED <<env, argW, argN, argF, exitCode, failure, idx, meaning,
                   selectedPhrases, values, translations, reordered, stdout, stderr,
                   fileWritten, fileContent>>

PhrasesReject == SequentialReject("awaitPhrases", "generatePhrases")

SelectReject == SequentialReject("awaitSelect", "prompt")

\* Variant: the chosen phrases are put in front of the list (unshift for push)
PushChosenInFront(list, chosenPhrases, m, word) ==
    [k \in 1..Len(chosenPhrases) |->
        [phrase |-> chosenPhrases[k], meaning |-> m, word |-> word]] \o list

\* Variant: a word with nothing chosen still leaves an entry behind
PushChosenOrBlank(list, chosenPhrases, m, word) ==
    IF chosenPhrases = <<>>
      THEN Append(list, [phrase |-> <<>>, meaning |-> m, word |-> word])
      ELSE list \o [k \in 1..Len(chosenPhrases) |->
                       [phrase |-> chosenPhrases[k], meaning |-> m, word |-> word]]

\* Lines 108-110
PushChosen(list, chosenPhrases, m, word) ==
    list \o [k \in 1..Len(chosenPhrases) |->
                [phrase |-> chosenPhrases[k], meaning |-> m, word |-> word]]

\* Lines 116: what one mapper call returns
Pair(item, translation) ==
    [english |-> item.phrase, portuguese |-> translation,
     meaning |-> item.meaning, word |-> item.word]

\* Variant: values are kept in the order the promises settle
GatherInCompletionOrder(vals, k, v) ==
    LET free == CHOOSE j \in 1..Len(vals) :
                    vals[j] = <<>> /\ \A i \in 1..(j - 1) : vals[i] # <<>>
    IN [vals EXCEPT ![free] = <<v>>]

\* Promise.all stores the k-th promise's value at position k
Gather(vals, k, v) == [vals EXCEPT ![k] = <<v>>]

AllGathered(vals) == \A k \in 1..Len(vals) : vals[k] # <<>>

\* Variant: the file is written first and the summary printed after it
FinishWriteFirst(result) ==
    LET printed == Append(Append(stdout, <<"\nFinal Output:\n">>), OutputContent(result))
    IN /\ translations' = result
       /\ IF flashcards
            THEN \E writeOk \in BOOLEAN :
                   IF writeOk
                     THEN /\ fileWritten' = TRUE
                          /\ fileContent' = FlashcardsContent(result)
                          /\ stdout' = stdout \o <<
                                <<"\nFlashcards file \"flashcards.txt\" has been generated.\n">>,
                                <<"\nFinal Output:\n">>, OutputContent(result)>>
                          /\ pc' = "exit"
                          /\ exitCode' = 0
                          /\ UNCHANGED <<failure, stderr>>
                     ELSE /\ TopLevelCatch("writeFileSync")
                          /\ UNCHANGED <<stdout, fileWritten, fileContent>>
            ELSE /\ stdout' = printed
                 /\ pc' = "exit"
                 /\ exitCode' = 0
                 /\ UNCHANGED <<failure, stderr, fileWritten, fileContent>>

\* Lines 120-143 and the normal end of the process
Finish(result) ==
    LET printed == Append(Append(stdout, <<"\nFinal Output:\n">>), OutputContent(result))
    IN /\ translations' = result
       /\ IF flashcards
            THEN \E writeOk \in BOOLEAN :
                   IF writeOk
                     THEN /\ fileWritten' = TRUE
                          /\ fileContent' = FlashcardsContent(result)
                          /\ stdout' = Append(printed,
                                <<"\nFlashcards file \"flashcards.txt\" has been generated.\n">>)
                          /\ pc' = "exit"
                          /\ exitCode' = 0
                          /\ UNCHANGED <<failure, stderr>>
                     ELSE /\ stdout' = printed
                          /\ TopLevelCatch("writeFileSync")
                          /\ UNCHANGED <<fileWritten, fileContent>>
            ELSE /\ stdout' = printed
                 /\ pc' = "exit"
                 /\ exitCode' = 0
                 /\ UNCHANGED <<failure, stderr, fileWritten, fileContent>>

\* Variant: phrases are translated one after the other, the first one first
TranslateCallsOneAtATime(list) ==
    [k \in 1..(IF Len(list) = 0 THEN 0 ELSE 1) |-> TranslatePhraseCall(list[k].phrase)]

\* Lines 113-115: map starts one translatePhrase call per item, all in one go
TranslateCalls(list) == [k \in 1..Len(list) |-> TranslatePhraseCall(list[k].phrase)]

\* Variant: the phrases chosen for a word are sent to translation at once,
\* before the loop goes on to the next word
SelectResolveEager(picks) ==
    /\ pc = "awaitSelect"
    /\ LET chosenPhrases == Checked(phrases, picks, 1)
           list == PushChosen(selectedPhrases, chosenPhrases, meaning, WordAt(idx))
           o == Outcome(TRUE, <<>>, chosenPhrases)
           eager == [k \in 1..Len(chosenPhrases) |-> TranslatePhraseCall(chosenPhrases[k])]
       IN /\ selectedPhrases' = list
          /\ IF idx < Len(words)
               THEN /\ idx' = idx + 1
                    /\ SettleAndIssue(Len(calls), o,
                                      eager \o <<GetWordMeaningCall(WordAt(idx + 1))>>)
                    /\ pc' = "awaitMeaning"
                    /\ UNCHANGED <<exitCode, failure, values, translations, stdout,
                                   stderr, fileWritten, fileContent>>
               ELSE /\ SettleAndIssue(Len(calls), o, eager)
                    /\ values' = [k \in 1..Len(list) |-> <<>>]
                    /\ UNCHANGED idx
                    /\ IF Len(list) = 0
                         THEN Finish(<<>>)
                         ELSE /\ pc' = "awaitTranslate"
                              /\ UNCHANGED <<exitCode, failure, translations, stdout,
                                             stderr, fileWritten, fileContent>>
    /\ UNCHANGED <<env, argW, argN, argF, meaning, phrases, reordered>>

\* Line 99 resolves; lines 108-110, then the next iteration or lines 113-118
SelectResolve(picks) ==
    /\ pc = "awaitSelect"
    /\ LET chosenPhrases == Checked(phrases, picks, 1)
           list == PushChosen(selectedPhrases, chosenPhrases, meaning, WordAt(idx))
           o == Outcome(TRUE, <<>>, chosenPhrases)
       IN /\ selectedPhrases' = list
          /\ IF idx < Len(words)
               THEN /\ idx' = idx + 1
                    /\ SettleAndIssue(Len(calls), o, <<GetWordMeaningCall(WordAt(idx + 1))>>)
                    /\ pc' = "awaitMeaning"
                    /\ UNCHANGED <<exitCode, failure, values, translations, stdout,
                                   stderr, fileWritten, fileContent>>
               ELSE /\ SettleAndIssue(Len(calls), o, TranslateCalls(list))
                    /\ values' = [k \in 1..Len(list) |-> <<>>]
                    /\ UNCHANGED idx
                    /\ IF Len(list) = 0
                         THEN Finish(<<>>)
                         ELSE /\ pc' = "awaitTranslate"
                              /\ UNCHANGED <<exitCode, failure, translations, stdout,
                                             stderr, fileWritten, fileContent>>
    /\ UNCHANGED <<env, argW, argN, argF, meaning, phrases, reordered>>

\* Position in calls of the translatePhrase call for selectedPhrases[k]
TranslateCallAt(k) == Len(calls) - Len(selectedPhrases) + k

\* Item k settles while an item issued before it is still pending
Overtakes(k) == \E j \in 1..(k - 1) : settled[TranslateCallAt(j)] = <<>>

\* Line 115 resolves for item k; when it was the last one, Promise.all resolves
TranslateResolve(k, t) ==
    /\ pc = "awaitTranslate"
    /\ k \in 1..Len(selectedPhrases)
    /\ settled[TranslateCallAt(k)] = <<>>
    /\ SettleAndIssue(TranslateCallAt(k), Outcome(TRUE, t, <<>>), <<>>)
    /\ values' = Gather(values, k, Pair(selectedPhrases[k], t))
    /\ IF AllGathered(values')
         THEN Finish([j \in 1..Len(values') |-> values'[j][1]])
         ELSE UNCHANGED <<pc, exitCode, failure, translations, stdout, stderr,
                          fileWritten, fileContent>>
    /\ reordered' = (reordered \/ Overtakes(k))
    /\ UNCHANGED <<env, argW, argN, argF, idx, meaning, phrases, selectedPhrases>>

\* Variant: the mapper swallows the error and yields an untranslated pair
TranslateRejectSwallowed(k) ==
    /\ pc = "awaitTranslate"
    /\ k \in 1..Len(selectedPhrases)
    /\ settled[TranslateCallAt(k)] = <<>>
    /\ SettleAndIssue(TranslateCallAt(k), Outcome(FALSE, <<>>, <<>>), <<>>)
    /\ values' = Gather(values, k, Pair(selectedPhrases[k], <<>>))
    /\ IF AllGathered(values')
         THEN Finish([j \in 1..Len(values') |-> values'[j][1]])
         ELSE UNCHANGED <<pc, exitCode, failure, translations, stdout, stderr,
                          fileWritten, fileContent>>
    /\ reordered' = (reordered \/ Overtakes(k))
    /\ UNCHANGED <<env, argW, argN, argF, idx, meaning, phrases, selectedPhrases>>

\* Line 115 rejects for item k: Promise.all rejects at once
TranslateReject(k) ==
    /\ pc = "awaitTranslate"
    /\ k \in 1..Len(selectedPhrases)
    /\ settled[TranslateCallAt(k)] = <<>>
    /\ SettleAndIssue(TranslateCallAt(k), Outcome(FALSE, <<>>, <<>>), <<>>)
    /\ TopLevelCatch("translatePhrase")
    /\ reordered' = (reordered \/ Overtakes(k))
    /\ UNCHANGED <<env, argW, argN, argF, idx, meaning, phrases, selectedPhrases,
                   values, translations, stdout, fileWritten, fileContent>>

Next ==
    \/ Startup
    \/ \E m \in Meanings : MeaningResolve(m)
    \/ MeaningReject
    \/ \E ps \in PhraseLists : PhrasesResolve(ps)
    \/ PhrasesReject
    \/ \E picks \in SUBSET (1..Len(phrases)) : SelectResolve(picks)
    \/ SelectReject
    \/ \E k \in 1..Len(selectedPhrases) : \E t \in Portuguese : TranslateResolve(k, t)
    \/ \E k \in 1..Len(selectedPhrases) : TranslateReject(k)

Spec == Init /\ [][Next]_vars

\* The runs with the default phrase count or a rejected one
FairInit == Init /\ argN \in {Absent, Given(<<"0">>)}

\* Every issued call is answered in the end, and the file write completes
FairSpec == FairInit /\ [][Next]_vars /\ WF_vars(Next)

-----------------------------------------------------------------------------
(* Vocabulary of the properties *)

\* The words of the calls to fn, in the order the calls were issued
CallWords(fn) ==
    LET made == SelectSeq(calls, LAMBDA c : c.fn = fn)
    IN [k \in 1..Len(made) |-> made[k].word]

CallCount(fn) == Len(SelectSeq(calls, LAMBDA c : c.fn = fn))

IsPrefix(s, t) == Len(s) <= Len(t) /\ s = SubSeq(t, 1, Len(s))

Failed(k) == settled[k] # <<>> /\ ~settled[k][1].ok

Succeeded(k) == settled[k] # <<>> /\ settled[k][1].ok

SomeCallFailed == \E k \in 1..Len(calls) : Failed(k)

SomeTranslateFailed ==
    \E k \in 1..Len(calls) : calls[k].fn = "translatePhrase" /\ Failed(k)

\* The loop of lines 93-111 has run to its end
SequentialPhaseOver ==
    \/ pc = "awaitTranslate"
    \/ pc = "exit" /\ failure \in {"none", "writeFileSync", "translatePhrase"}

\* Promise.all of line 113 has resolved
TranslationsGathered == pc = "exit" /\ failure \in {"none", "writeFileSync"}

SummaryPrinted == \E j \in 1..Len(stdout) : stdout[j] = <<"\nFinal Output:\n">>

-----------------------------------------------------------------------------
(* C1 *)

\* C1: the meaning calls and the phrase-generation calls are issued for the
\* words of the list in list order, and a run whose sequential phase ended
\* without a failed call has issued exactly one of each per word of the list.
C1_CallsInListOrder ==
    /\ IsPrefix(CallWords("getWordMeaning"), words)
    /\ IsPrefix(CallWords("generatePhrases"), words)
    /\ SequentialPhaseOver =>
         /\ CallWords("getWordMeaning") = words
         /\ CallWords("generatePhrases") = words
         /\ CallCount("getWordMeaning") = Len(words)
         /\ CallCount("generatePhrases") = Len(words)

C1_Witness ==
    /\ pc = "exit" /\ exitCode = 0 /\ ~SomeCallFailed
    /\ Len(words) = 2 /\ words[1] # words[2]
    /\ CallCount("getWordMeaning") = 2

-----------------------------------------------------------------------------
(* C2 *)

\* C2: once the translation stage has resolved, its result list is as long as
\* the accumulation list, and the result at i carries the word, the meaning
\* and the English phrase of the item at i and the text returned by the
\* translatePhrase call issued for that item, whatever the completion order.
C2_ResultsIndexCorrelated ==
    /\ TranslationsGathered =>
         /\ Len(translations) = Len(selectedPhrases)
         /\ \A i \in 1..Len(selectedPhrases) :
              /\ translations[i].word = selectedPhrases[i].word
              /\ translations[i].meaning = selectedPhrases[i].meaning
              /\ translations[i].english = selectedPhrases[i].phrase
              /\ calls[TranslateCallAt(i)].phrase = selectedPhrases[i].phrase
              /\ Succeeded(TranslateCallAt(i))
              /\ translations[i].portuguese = settled[TranslateCallAt(i)][1].text
    /\ pc = "awaitTranslate" =>
         \A i \in 1..Len(selectedPhrases) :
              Succeeded(TranslateCallAt(i)) =>
                  /\ values[i] # <<>>
                  /\ values[i][1].english = selectedPhrases[i].phrase
                  /\ values[i][1].portuguese = settled[TranslateCallAt(i)][1].text

C2_Witness ==
    /\ TranslationsGathered /\ reordered
    /\ Len(translations) >= 2
    /\ translations[1].portuguese # translations[2].portuguese
    /\ translations[1].english # translations[2].english

-----------------------------------------------------------------------------
(* C3 *)

\* C3: once a translatePhrase call has failed the process has exited with
\* status 1, flashcards.txt is not written and the summary is not printed,
\* whatever the flag and whatever the state of the other translations.
C3_TranslateFailureAborts ==
    SomeTranslateFailed =>
        /\ pc = "exit" /\ exitCode = 1
        /\ ~fileWritten
        /\ ~SummaryPrinted
        /\ translations = <<>>

C3_Witness ==
    /\ SomeTranslateFailed /\ flashcards /\ pc = "exit"
    /\ \E k \in 1..Len(calls) : calls[k].fn = "translatePhrase" /\ Succeeded(k)
    /\ \E k \in 1..Len(calls) : calls[k].fn = "translatePhrase" /\ settled[k] = <<>>

-----------------------------------------------------------------------------
(* C4 *)

\* C4: flashcards.txt is written only when the flag is set and every meaning,
\* phrase-generation, selection and translation call of the run, one per word
\* and one per selected phrase, has completed successfully.
C4_WriteOnlyAfterFullSuccess ==
    fileWritten =>
        /\ argF
        /\ \A k \in 1..Len(calls) : Succeeded(k)
        /\ CallCount("getWordMeaning") = Len(words)
        /\ CallCount("generatePhrases") = Len(words)
        /\ CallCount("prompt") = Len(words)
        /\ CallCount("translatePhrase") = Len(selectedPhrases)

C4_Witness ==
    /\ fileWritten /\ Len(words) = 2 /\ Len(selectedPhrases) >= 2

-----------------------------------------------------------------------------
(* C5 *)

\* The text is a decimal integer: optional blanks, an optional sign, digits only
Numeric(text) ==
    LET t == SkipSpace(text)
        u == IF t # <<>> /\ Head(t) \in {"-", "+"} THEN Tail(t) ELSE t
    IN u # <<>> /\ \A k \in 1..Len(u) : u[k] \in Digits

Rejected == pc = "exit" /\ exitCode = 1 /\ calls = <<>>

\* C5: once the top level has run, a -n value that is not a number, or is a
\* number less than or equal to 0, has ended the process with status 1 and no
\* collaborator call; with no -n flag the phrase count is 5.
C5_BadPhraseCountRejected ==
    pc # "start" =>
        /\ (argN.present /\ (~Numeric(argN.text) \/ ParseInt(argN.text).val <= 0))
               => Rejected
        /\ ~argN.present => numPhrases = Num(5)

-----------------------------------------------------------------------------
(* C6 *)

\* C6: once the top level has run, an absent or empty -w list, or an absent
\* credential, has ended the process with status 1 and no collaborator call.
C6_NoWordsOrNoCredentialRejected ==
    pc # "start" =>
        ((~argW.present \/ argW.text = <<>> \/ ~env) => Rejected)

C6_Witness ==
    /\ Rejected /\ ~env
    /\ argW.present /\ argW.text # <<>>
    /\ ~BadNumPhrases

-----------------------------------------------------------------------------
(* C7 *)

-----------------------------------------------------------------------------
(* C8 *)

ConfigurationValid ==
    /\ env
    /\ argW.present /\ argW.text # <<>>
    /\ ~numPhrases.nan /\ numPhrases.val > 0

EveryCallSucceeded ==
    /\ \A k \in 1..Len(calls) : Succeeded(k)
    /\ CallCount("getWordMeaning") = Len(words)
    /\ CallCount("generatePhrases") = Len(words)
    /\ CallCount("prompt") = Len(words)
    /\ CallCount("translatePhrase") = Len(selectedPhrases)

WriteFailed == flashcards /\ EveryCallSucceeded /\ ~fileWritten

\* C8: the process ends with status 0 exactly when the configuration was
\* valid, every collaborator call succeeded and the requested write succeeded,
\* and with status 1 exactly when the configuration was invalid, a call failed
\* or the write failed; a failed call has always ended the process with 1.
C8_ExitStatus ==
    /\ pc = "exit" =>
         /\ exitCode \in {0, 1}
         /\ exitCode = 0 <=>
              (ConfigurationValid /\ EveryCallSucceeded /\ (flashcards => fileWritten))
         /\ exitCode = 1 <=> (~ConfigurationValid \/ SomeCallFailed \/ WriteFailed)
    /\ SomeCallFailed =>
         /\ pc = "exit" /\ exitCode = 1
         /\ stderr = << <<"An error occurred:">> >>

C8_Witness ==
    /\ pc = "exit" /\ exitCode = 1
    /\ ConfigurationValid /\ ~SomeCallFailed /\ WriteFailed
    /\ Len(translations) >= 1

-----------------------------------------------------------------------------
(* C9 *)

\* The step settles the pending prompt with nothing chosen
EmptySelectionStep ==
    /\ pc = "awaitSelect"
    /\ settled'[Len(calls)] = <<Outcome(TRUE, <<>>, <<>>)>>

\* C9: a selection that resolves with nothing chosen leaves the accumulation
\* list as it was and raises no error, and when a word follows, the step goes
\* on to the meaning call for that word.
C9_EmptySelectionSkipsWord ==
    [][EmptySelectionStep =>
         /\ selectedPhrases' = selectedPhrases
         /\ failure' # "prompt"
         /\ idx < Len(words) =>
              /\ pc' = "awaitMeaning"
              /\ failure' = "none"
              /\ idx' = idx + 1
              /\ calls' = Append(calls, GetWordMeaningCall(words[idx + 1]))]_vars

C9_Witness ==
    /\ pc = "awaitMeaning" /\ idx = 2
    /\ phrases # <<>> /\ selectedPhrases = <<>>
    /\ Succeeded(3) /\ calls[3].fn = "prompt" /\ settled[3][1].list = <<>>

-----------------------------------------------------------------------------
(* C10 *)

SequentialOrder == <<"getWordMeaning", "generatePhrases", "prompt">>

InSequentialPhase == pc \in {"awaitMeaning", "awaitPhrases", "awaitSelect"}

\* C10: in the sequential phase exactly one collaborator call is outstanding,
\* the last one issued; the calls of that phase are, word by word in list
\* order, the meaning call, the phrase-generation call and the prompt, each
\* issued only after the one before it succeeded; so no two prompts overlap.
C10_StrictlySequential ==
    /\ InSequentialPhase => Pending = {Len(calls)}
    /\ \A k \in 1..Len(calls) :
         calls[k].fn # "translatePhrase" =>
            /\ calls[k].fn = SequentialOrder[((k - 1) % 3) + 1]
            /\ calls[k].word = words[((k - 1) \div 3) + 1]
            /\ k < Len(calls) => Succeeded(k)
    /\ Cardinality({k \in Pending : calls[k].fn = "prompt"}) <= 1

C10_Witness ==
    /\ pc = "awaitSelect" /\ idx = 2
    /\ Len(calls) = 6 /\ Pending = {6}

-----------------------------------------------------------------------------
(* C11 *)

\* The phrases of the translatePhrase calls, in the order the calls were issued
TranslateCallPhrases ==
    LET made == SelectSeq(calls, LAMBDA c : c.fn = "translatePhrase")
    IN [k \in 1..Len(made) |-> made[k].phrase]

\* The prompt of every word of the list has resolved
EverySelectionResolved ==
    /\ CallCount("prompt") = Len(words)
    /\ \A k \in 1..Len(calls) : calls[k].fn = "prompt" => Succeeded(k)

\* C11: when a translatePhrase call has been issued, the selection of every
\* word, the last included, has resolved and the calls are those of the
\* accumulation list as it then stands; from the first translatePhrase call
\* on, no step changes the accumulation list.
C11_TranslationAfterAccumulation ==
    /\ [](CallCount("translatePhrase") > 0 =>
            /\ EverySelectionResolved
            /\ idx = Len(words)
            /\ TranslateCallPhrases =
                   [k \in 1..Len(selectedPhrases) |-> selectedPhrases[k].phrase])
    /\ [][CallCount("translatePhrase") > 0 => selectedPhrases' = selectedPhrases]_vars

C11_Witness ==
    /\ pc = "awaitTranslate" /\ Len(words) = 2
    /\ CallCount("translatePhrase") >= 2
    /\ selectedPhrases[1].word # selectedPhrases[Len(selectedPhrases)].word
    /\ \E k \in 1..Len(calls) : calls[k].fn = "translatePhrase" /\ Succeeded(k)

-----------------------------------------------------------------------------
(* C12 *)

TranslatePending ==
    { k \in 1..Len(calls) : calls[k].fn = "translatePhrase" /\ settled[k] = <<>> }

\* C12: once the sequential phase is over there is exactly one translatePhrase
\* call per item of the accumulation list, the call at k for the item at k;
\* the calls are all issued by one step, so that in the state it leads to
\* every one of them is in flight and none has been answered.
C12_TranslationsStartedTogether ==
    /\ [](SequentialPhaseOver =>
            /\ CallCount("translatePhrase") = Len(selectedPhrases)
            /\ \A k \in 1..Len(selectedPhrases) :
                 calls[TranslateCallAt(k)] = TranslatePhraseCall(selectedPhrases[k].phrase))
    /\ [][CallCount("translatePhrase")' # CallCount("translatePhrase") =>
            /\ CallCount("translatePhrase") = 0
            /\ CallCount("translatePhrase")' = Len(selectedPhrases')
            /\ Cardinality(TranslatePending') = Len(selectedPhrases')]_vars

C12_Witness ==
    /\ pc = "awaitTranslate"
    /\ Len(selectedPhrases) >= 3
    /\ Cardinality(TranslatePending) = Len(selectedPhrases)
    /\ selectedPhrases[1].phrase = selectedPhrases[Len(selectedPhrases)].phrase

-----------------------------------------------------------------------------
(* C13 *)

\* The list given on the command line, before the program touches it
InputWords == IF argW.present THEN Split(argW.text, ",") ELSE <<>>

\* The calls of the j-th word of the list sit at 3j-2, 3j-1 and 3j
MeaningCallOf(j) == 3 * j - 2
PhrasesCallOf(j) == 3 * j - 1
PromptCallOf(j) == 3 * j

\* How many words have had their selection resolved
SelectionsResolved ==
    Cardinality({ k \in 1..Len(calls) : calls[k].fn = "prompt" /\ Succeeded(k) })

SelectionResultOf(j) == settled[PromptCallOf(j)][1].list

MeaningReturnedFor(j) == settled[MeaningCallOf(j)][1].text

RECURSIVE TotalChosen(_)
TotalChosen(j) == IF j = 0 THEN 0 ELSE TotalChosen(j - 1) + Len(SelectionResultOf(j))

\* C13: the accumulation list is as long as the selections resolved so far
\* are together; its entries come word by word in list order and, within a
\* word, in the order chosen, each carrying that word and the meaning
\* returned for that word.
C13_AccumulationInvariant ==
    /\ Len(selectedPhrases) = TotalChosen(SelectionsResolved)
    /\ \A j \in 1..SelectionsResolved :
         \A k \in 1..Len(SelectionResultOf(j)) :
            LET e == selectedPhrases[TotalChosen(j - 1) + k]
            IN /\ e.phrase = SelectionResultOf(j)[k]
               /\ e.word = InputWords[j]
               /\ e.meaning = MeaningReturnedFor(j)

C13_Witness ==
    /\ pc = "awaitSelect" /\ idx = 2
    /\ Len(selectedPhrases) = 2
    /\ selectedPhrases[1].phrase # selectedPhrases[2].phrase
    /\ meaning # selectedPhrases[1].meaning

-----------------------------------------------------------------------------
(* C14 *)

\* C14 as stated: a call that is never answered keeps the process from
\* ending, that is, the process has ended only when no issued call is left
\* unanswered.
C14_NoExitWithCallOutstanding == pc = "exit" => Pending = {}

\* C14, amended: the process ends with a call left unanswered only with
\* status 1 after a translatePhrase call failed, the unanswered calls being
\* other translatePhrase calls; and every step of a started run is the answer
\* to an outstanding call, there being no timeout and no cancellation.
C14_StallBlocksUnlessTranslateFails ==
    /\ []((pc = "exit" /\ Pending # {}) =>
            /\ exitCode = 1
            /\ SomeTranslateFailed
            /\ \A k \in Pending : calls[k].fn = "translatePhrase")
    /\ [][pc # "start" => \E k \in Pending : settled'[k] # <<>>]_vars

C14_Witness ==
    /\ pc = "exit" /\ exitCode = 1
    /\ Pending # {}
    /\ SomeTranslateFailed

-----------------------------------------------------------------------------
(* C15 *)

\* C15: the k-th meaning call, phrase-generation call and prompt are for the
\* k-th word of the list and there is at most one translatePhrase call per
\* item, so no call is made twice for one occurrence or one item; a failed
\* call of the sequential phase is the last call issued; a failed call has
\* ended the process, and no step issues a call once a call has failed.
C15_SingleAttemptFailFast ==
    /\ [](/\ IsPrefix(CallWords("getWordMeaning"), InputWords)
          /\ IsPrefix(CallWords("generatePhrases"), InputWords)
          /\ IsPrefix(CallWords("prompt"), InputWords)
          /\ CallCount("translatePhrase") <= Len(selectedPhrases)
          /\ \A k \in 1..Len(calls) :
               (Failed(k) /\ calls[k].fn # "translatePhrase") => k = Len(calls)
          /\ SomeCallFailed => pc = "exit")
    /\ [][SomeCallFailed => calls' = calls]_vars

C15_Witness ==
    /\ pc = "exit" /\ exitCode = 1
    /\ Len(InputWords) = 2
    /\ Len(calls) = 1 /\ calls[1].fn = "getWordMeaning" /\ Failed(1)

-----------------------------------------------------------------------------
(* C16 *)

\* C16: every prompt presents at most numPhrases candidates, and no word
\* occurrence contributes more than numPhrases entries to the accumulation
\* list.
C16_AtMostNumPhrasesCandidates ==
    /\ \A k \in 1..Len(calls) :
         calls[k].fn = "prompt" => Len(calls[k].choices) <= numPhrases.val
    /\ \A j \in 1..SelectionsResolved : Len(SelectionResultOf(j)) <= numPhrases.val

-----------------------------------------------------------------------------
(* C17 *)

Occurrences(w) == Cardinality({ j \in 1..Len(InputWords) : InputWords[j] = w })

CallsFor(fn, w) ==
    Cardinality({ k \in 1..Len(calls) : calls[k].fn = fn /\ calls[k].word = w })

\* C17: once the sequential phase is over, a word given m times has had m
\* meaning calls, m phrase-generation calls and m prompts; and every entry of
\* the accumulation list carries the meaning returned to the meaning call of
\* the occurrence it comes from.
C17_DuplicatesProcessedIndependently ==
    /\ SequentialPhaseOver =>
         \A j \in 1..Len(InputWords) :
            /\ CallsFor("getWordMeaning", InputWords[j]) = Occurrences(InputWords[j])
            /\ CallsFor("generatePhrases", InputWords[j]) = Occurrences(InputWords[j])
            /\ CallsFor("prompt", InputWords[j]) = Occurrences(InputWords[j])
    /\ \A j \in 1..SelectionsResolved :
         \A k \in 1..Len(SelectionResultOf(j)) :
            /\ calls[MeaningCallOf(j)] = GetWordMeaningCall(InputWords[j])
            /\ selectedPhrases[TotalChosen(j - 1) + k].meaning = MeaningReturnedFor(j)

C17_Witness ==
    /\ SequentialPhaseOver
    /\ Len(InputWords) = 2 /\ InputWords[1] = InputWords[2]
    /\ CallsFor("prompt", InputWords[1]) = 2
    /\ Len(selectedPhrases) >= 2
    /\ selectedPhrases[1].meaning # selectedPhrases[Len(selectedPhrases)].meaning
    /\ MeaningReturnedFor(1) # MeaningReturnedFor(2)

-----------------------------------------------------------------------------
(* C18 *)

\* C18: when every issued call is answered in the end, the process ends, with
\* status 0 or 1; and a run never holds more calls than three per word of the
\* list plus one per phrase chosen.
C18_TerminatesWithBoundedCalls ==
    /\ <>(pc = "exit" /\ exitCode \in {0, 1})
    /\ [](Len(calls) <= 3 * Len(InputWords) + TotalChosen(SelectionsResolved))

C18_Witness ==
    /\ pc = "exit" /\ exitCode = 0
    /\ Len(InputWords) = 2
    /\ TotalChosen(SelectionsResolved) >= 3
    /\ Len(calls) = 3 * Len(InputWords) + TotalChosen(SelectionsResolved)

-----------------------------------------------------------------------------
(* C19 *)

\* The selection of every word has resolved with nothing chosen
NothingChosenAtAll ==
    /\ Len(InputWords) > 0
    /\ SelectionsResolved = Len(InputWords)
    /\ TotalChosen(SelectionsResolved) = 0

\* C19 as stated: with the flag set and nothing chosen for any word, no
\* translatePhrase call is issued, the result list is empty, and
\* flashcards.txt is written holding the three header lines and nothing else,
\* with status 0.
C19_EmptySelectionAlwaysExports ==
    (argF /\ NothingChosenAtAll) =>
        /\ CallCount("translatePhrase") = 0
        /\ pc = "exit"
        /\ translations = <<>>
        /\ fileWritten
        /\ fileContent = <<"#separator:tab", "\n", "#html:true", "\n", "#tags column:3">>
        /\ exitCode = 0

\* C19, amended: with the flag set and nothing chosen for any word, no
\* translatePhrase call is issued and the run never waits for one: the result
\* list is empty, the summary is printed, and flashcards.txt is written
\* holding the three header lines and nothing else, with status 0, unless the
\* write itself fails, which ends the run with status 1 and no file.
C19_EmptySelectionStillExports ==
    (argF /\ NothingChosenAtAll) =>
        /\ CallCount("translatePhrase") = 0
        /\ pc = "exit"
        /\ translations = <<>>
        /\ SummaryPrinted
        /\ \/ /\ exitCode = 0
              /\ fileWritten
              /\ fileContent =
                   <<"#separator:tab", "\n", "#html:true", "\n", "#tags column:3">>
           \/ /\ exitCode = 1
              /\ ~fileWritten
              /\ stderr = << <<"An error occurred:">> >>

C19_Witness ==
    /\ argF /\ NothingChosenAtAll
    /\ Len(InputWords) = 2
    /\ \E k \in 1..Len(calls) : calls[k].fn = "prompt" /\ Len(calls[k].choices) >= 2
    /\ fileWritten /\ exitCode = 0

-----------------------------------------------------------------------------
(* C20 *)

\* Position in stdout of the line announcing the summary, 0 when not printed
SummaryAt ==
    IF SummaryPrinted
      THEN CHOOSE j \in 1..Len(stdout) : stdout[j] = <<"\nFinal Output:\n">>
      ELSE 0

GeneratedLine == <<"\nFlashcards file \"flashcards.txt\" has been generated.\n">>

\* The run got through every call and ended with status 1 all the same
EndedInWriteFailure ==
    /\ pc = "exit" /\ exitCode = 1
    /\ ConfigurationValid
    /\ ~SomeCallFailed

\* C20: the summary is printed only when every translatePhrase call, one per
\* item, has succeeded, and it is printed whole; a run that ends in a failed
\* write has the whole summary on stdout and no file; a run in which a call
\* failed has no summary; and the line announcing the file comes after it.
C20_SummaryBeforeExport ==
    /\ SummaryPrinted =>
         /\ CallCount("translatePhrase") = Len(selectedPhrases)
         /\ \A k \in 1..Len(calls) : calls[k].fn = "translatePhrase" => Succeeded(k)
         /\ SummaryAt < Len(stdout)
         /\ stdout[SummaryAt + 1] = OutputContent(translations)
    /\ EndedInWriteFailure =>
         /\ argF /\ ~fileWritten
         /\ SummaryPrinted
         /\ stdout[Len(stdout)] = OutputContent(translations)
    /\ SomeCallFailed => ~SummaryPrinted
    /\ fileWritten =>
         /\ SummaryPrinted
         /\ stdout[Len(stdout)] = GeneratedLine
         /\ SummaryAt + 2 = Len(stdout)

C20_Witness ==
    /\ EndedInWriteFailure
    /\ SummaryPrinted
    /\ Len(translations) >= 2

====
